---- MODULE Spec2Model ----
(***************************************************************************)
(* Sphinx onion packets of ranxiverba/mlatu: Packet::data, Packet::new,    *)
(* Packet::accept and Packet::process (src/src/packet.rs) over the fixed   *)
(* path of src/src/path.rs and the key derivation of src/src/sphinx.rs.    *)
(*                                                                         *)
(* The primitive suite (group, hash, MAC, keystream) is a type parameter   *)
(* of the code.  It is modelled as an ideal suite:                         *)
(*  - a byte is an element of the free XOR algebra: a finite set of atoms, *)
(*    XOR is symmetric difference, the zero byte is the empty set;         *)
(*  - byte p of the keystream seeded with key k is the atom (label,k,p),   *)
(*    and the key derived from a shared secret is written as that secret;  *)
(*  - byte j of a MAC over input d under key k is the atom ("mu",k,d,j);   *)
(*  - a scalar is a bag of factors, a point is a bag of factors holding    *)
(*    the base point once; multiplication is bag union; tau and blinding   *)
(*    are injective hashes of their arguments.                             *)
(* Slots keep their L data bytes and M hmac bytes, paths their N slots and *)
(* streams their byte position, so offsets, shifts and the order of XORs   *)
(* are those of the code.                                                  *)
(***************************************************************************)
EXTENDS Integers, Sequences, FiniteSets, Bags, TLC

\* ------------------------------------------------------------------ bounds
\* type parameter N: slots of a path; L: payload bytes; M: MAC bytes
N == 3
L == 2
M == 1
\* bytes of the end-to-end message
MsgLen == 2
\* calls made on a path taken alone
MaxOps == 3

\* serialised width of a group point (secp256k1 compressed)
PointLen == 33

\* the instantiation of the test `path`: TruncatedPacket<U19, U5, Message>
TEST_L == 19
TEST_N == 5
TEST_M == 16
MESSAGE_LENGTH == 4096 - 224

\* secret scalars of the parties a route may name
HopKeys == {1, 2}
\* the sender's session scalar
SessionKey == 9

\* ------------------------------------------------------------------ state
VARIABLES
    keys,       \* secret scalars of the hops of the route, in route order
    points,     \* the hop points handed to Packet::data
    npay,       \* number of payloads handed to Packet::new
    ad0,        \* associated data handed to Packet::new
    hzero,      \* hop of the route whose blinding digest is no valid scalar (0: none)
    pc,         \* "start", "derived", "inflight", "exit", "rejected", "error", "panic"
    derived,    \* value returned by Packet::data
    built,      \* built[i]: the sender's path right after layer i was written and encrypted
    pkt,        \* the packet in flight
    hop,        \* position in the route of the hop the packet is addressed to
    outputs,    \* payloads returned by the process calls so far
    last,       \* the latest process call: its arguments, locals at return and result
    tamper,     \* field and byte an adversary altered in flight, NoTamper if none
    honest,     \* every process so far used the addressed hop's scalar and ad0
    variant,    \* which payload list the latest Packet::new was handed (1 or 2)
    first,      \* the packet of the first Packet::new once the derived value is reused
    h           \* a path under the operations of Path alone: the latest call and its result

vars == <<keys, points, npay, ad0, hzero, pc, derived, built, pkt, hop, outputs, last,
          tamper, honest, variant, first, h>>

\* the state of the sender, the packet in flight and the hops
packet_vars == <<keys, points, npay, ad0, hzero, pc, derived, built, pkt, hop, outputs,
                 last, tamper, honest, variant, first>>

\* ------------------------------------------------------- free XOR algebra
ZeroSecret == <<"zero", EmptyBag>>

Atom(tag, key, input, n) == <<tag, key, input, n>>

Xor(a, b) == (a \ b) \cup (b \ a)

ZeroBytes(n) == [j \in 1..n |-> {}]

\* ------------------------------------------------------------------ group
Factor(kind, id, pk, sec) == <<kind, id, pk, sec>>

Scalar(id) == SetToBag({Factor("sk", id, EmptyBag, ZeroSecret)})

BasePoint == SetToBag({Factor("G", 0, EmptyBag, ZeroSecret)})

\* the scalar zero; a product holding it is the point at infinity
ZeroScalar == Scalar(0)

IsZero(b) == BagIn(Factor("sk", 0, EmptyBag, ZeroSecret), b)

Infinity == ZeroScalar (+) BasePoint

\* SecretKey::paired: scalar * base
paired(secret) == secret (+) BasePoint

\* SecretKey::dh: scalar * point, an error when the product is the identity
dh(secret, point) ==
    LET r == secret (+) point
    IN  IF IsZero(r) THEN [ok |-> FALSE, v |-> EmptyBag] ELSE [ok |-> TRUE, v |-> r]

\* ------------------------------------------------------- key derivation
\* Sphinx::tau: hash of the serialised point
tau(public_key) == <<"tau", public_key>>

\* Sphinx::blinding: hash of the serialised point and the shared secret
blinding(public_key, shared) == Factor("bl", 0, public_key, shared)

\* the digest of hop hzero is not a valid scalar of the group
HashIsZero(digest) == hzero # 0 /\ BagCardinality(digest[3]) = hzero + 1

\* Array::from_inner on a digest: the scalar it encodes
from_inner(digest) == IF HashIsZero(digest) THEN ZeroScalar ELSE SetToBag({digest})

\* SecretKey::mul_assign: scalar * scalar, an error on an invalid operand
mul_assign(secret, digest) ==
    LET r == secret (+) from_inner(digest)
    IN  IF IsZero(r) THEN [ok |-> FALSE, v |-> EmptyBag] ELSE [ok |-> TRUE, v |-> r]

\* collector.result().code(): the key MAC_label(shared).  The digest is ideal, so it is
\* written as the secret it was derived from; a secret the sender derived is written
\* as its index among the derived secrets (one-to-one: those secrets are distinct)
key_of(shared) ==
    IF derived.kind = "ok" /\ shared # ZeroSecret
         /\ \E i \in DOMAIN derived.shared_secrets : derived.shared_secrets[i] = shared
    THEN <<"s", CHOOSE i \in DOMAIN derived.shared_secrets :
                    derived.shared_secrets[i] = shared>>
    ELSE shared

\* a seekable keystream: the label and key that seed it, and its position
Stream(tag, shared) == [tag |-> tag, key |-> key_of(shared), pos |-> 0]

\* Sphinx::rho: keystream seeded with MAC_"rho"(shared)
rho(shared) == Stream("rho", shared)

\* Sphinx::pi: keystream seeded with MAC_"um"(shared)
pi(shared) == Stream("um", shared)

\* mutant of mu: the MAC key does not depend on the shared secret
mu_unkeyed(shared) == [key |-> ZeroSecret, input |-> <<>>]

\* Sphinx::mu: MAC keyed with MAC_"mu"(shared), nothing absorbed yet
mu(shared) == [key |-> key_of(shared), input |-> <<>>]

\* Sphinx::chain: absorb bytes
chain(collector, bytes) == [collector EXCEPT !.input = @ \o bytes]

\* Sphinx::output: the M bytes of the tag
output(collector) == [j \in 1..M |-> {Atom("mu", collector.key, collector.input, j)}]

\* SeekableKeyStream::seek_to
seek_to(stream, byte_offset) == [stream EXCEPT !.pos = byte_offset]

\* KeyStream::xor_read: XOR the next Len(buf) stream bytes into buf
xor_read(stream, buf) ==
    [buf    |-> [j \in 1..Len(buf) |->
                    Xor(buf[j], {Atom(stream.tag, stream.key, <<>>, stream.pos + j - 1)})],
     stream |-> [stream EXCEPT !.pos = @ + Len(buf)]]

\* ------------------------------------------------------------------- path
\* PayloadHmac::default
PayloadHmac_default == [data |-> ZeroBytes(L), hmac |-> ZeroBytes(M)]

\* PayloadHmac::size
PayloadHmac_size == L + M

\* Path::size
Path_size == N

\* Path::new
Path_new == [i \in 1..Path_size |-> PayloadHmac_default]

\* mutant of PayloadHmac_bitxor_assign: hmac first, then data
PayloadHmac_bitxor_hmac_first(slot, rhs) ==
    LET a == xor_read(rhs, slot.hmac)
        b == xor_read(a.stream, slot.data)
    IN  [slot |-> [data |-> b.buf, hmac |-> a.buf], stream |-> b.stream]

\* BitXorAssign for PayloadHmac: data first, then hmac
PayloadHmac_bitxor_assign(slot, rhs) ==
    LET a == xor_read(rhs, slot.data)
        b == xor_read(a.stream, slot.hmac)
    IN  [slot |-> [data |-> a.buf, hmac |-> b.buf], stream |-> b.stream]

\* raw[lo..hi).iter_mut().for_each(|x| *x ^= rhs), lo and hi counted from 0
RECURSIVE xor_slots(_, _, _, _)
xor_slots(raw, lo, hi, rhs) ==
    IF lo >= hi THEN [raw |-> raw, stream |-> rhs]
    ELSE LET x == PayloadHmac_bitxor_assign(raw[lo + 1], rhs)
         IN  xor_slots([raw EXCEPT ![lo + 1] = x.slot], lo + 1, hi, x.stream)

\* BitXorAssign for Path: every slot in order
Path_bitxor_assign(raw, rhs) == xor_slots(raw, 0, Path_size, rhs)

\* mutant of push: the last slot is not dropped
push_grow(raw, item) == <<item>> \o raw

\* for i in (1..size).rev() { raw[i] = raw[i - 1] }: iterations i down to 1, i from 0
RECURSIVE shift_right(_, _)
shift_right(raw, i) ==
    IF i < 1 THEN raw ELSE shift_right([raw EXCEPT ![i + 1] = raw[i]], i - 1)

\* mutant of push: the slots are copied in ascending order
push_ascending(raw, item) == [i \in 1..Path_size |-> IF i = 1 THEN item ELSE raw[1]]

\* Path::push
push(raw, item) == [shift_right(raw, Path_size - 1) EXCEPT ![1] = item]

\* mutant of pop: the vacated last slot is not zeroed
pop_keep_tail(raw) ==
    [item |-> raw[1],
     raw  |-> [i \in 1..Path_size |-> IF i < Path_size THEN raw[i + 1] ELSE raw[i]]]

\* for i in 1..size { raw[i - 1] = raw[i] }: iterations i up to size - 1, i from 0
RECURSIVE shift_left(_, _, _)
shift_left(raw, i, size) ==
    IF i >= size THEN raw ELSE shift_left([raw EXCEPT ![i] = raw[i + 1]], i + 1, size)

\* mutant of pop: the slots are copied in descending order
pop_descending(raw) ==
    [item |-> raw[1],
     raw  |-> [i \in 1..Path_size |-> IF i < Path_size THEN raw[Path_size]
                                       ELSE PayloadHmac_default]]

\* Path::pop
pop(raw) ==
    [item |-> raw[1],
     raw  |-> [shift_left(raw, 1, Path_size) EXCEPT ![Path_size] = PayloadHmac_default]]

\* fold of chain over the slots: data then hmac of each slot in order
RECURSIVE fold_hops(_, _, _)
fold_hops(collector, raw, i) ==
    IF i > Len(raw) THEN collector
    ELSE fold_hops(chain(chain(collector, raw[i].data), raw[i].hmac), raw, i + 1)

\* mutant of calc_hmac: the associated data is not absorbed
calc_hmac_no_ad(shared, raw, associated_data) == output(fold_hops(mu(shared), raw, 1))

\* the tag of a path and associated data under mu(shared)
calc_hmac(shared, raw, associated_data) ==
    output(chain(fold_hops(mu(shared), raw, 1), associated_data))

\* ----------------------------------------------------------------- packet
\* mutant of try_fold: the blinding is hashed from the hop's point
RECURSIVE try_fold_hop_blinding(_, _, _)
try_fold_hop_blinding(acc, path, i) ==
    IF ~acc.ok \/ i > Len(path) THEN acc
    ELSE LET temp == dh(acc.secret, path[i])
         IN  IF ~temp.ok THEN [acc EXCEPT !.ok = FALSE]
             ELSE LET result == tau(temp.v)
                      blind  == blinding(path[i], result)
                      secret == mul_assign(acc.secret, blind)
                  IN  IF ~secret.ok THEN [acc EXCEPT !.ok = FALSE]
                      ELSE try_fold_hop_blinding(
                                    [ok     |-> TRUE,
                                     s      |-> Append(acc.s, result),
                                     secret |-> secret.v,
                                     public |-> paired(secret.v)], path, i + 1)

\* the closure of try_fold in Packet::data, applied to path[i..]
RECURSIVE try_fold(_, _, _)
try_fold(acc, path, i) ==
    IF ~acc.ok \/ i > Len(path) THEN acc
    ELSE LET temp == dh(acc.secret, path[i])
         IN  IF ~temp.ok THEN [acc EXCEPT !.ok = FALSE]
             ELSE LET result == tau(temp.v)
                      blind  == blinding(acc.public, result)
                      secret == mul_assign(acc.secret, blind)
                  IN  IF ~secret.ok THEN [acc EXCEPT !.ok = FALSE]
                      ELSE try_fold([ok     |-> TRUE,
                                     s      |-> Append(acc.s, result),
                                     secret |-> secret.v,
                                     public |-> paired(secret.v)], path, i + 1)

\* mutant of data: a failure of the fold is swallowed, the secrets derived so far are
\* returned
data_partial(session_key, path) ==
    LET public_key == paired(session_key)
        folded == try_fold([ok |-> TRUE, s |-> <<>>, secret |-> session_key,
                            public |-> public_key], path, 1)
    IN  IF Len(folded.s) > Path_size THEN [kind |-> "panic"]
        ELSE [kind           |-> "ok",
              shared_secrets |-> [i \in 1..Path_size |->
                                    IF i <= Len(folded.s) THEN folded.s[i] ELSE ZeroSecret],
              public_key     |-> public_key]

\* mutant of data: of a route longer than N the first N secrets are copied
data_truncating(session_key, path) ==
    LET public_key == paired(session_key)
        folded == try_fold([ok |-> TRUE, s |-> <<>>, secret |-> session_key,
                            public |-> public_key], path, 1)
    IN  IF ~folded.ok THEN [kind |-> "error"]
        ELSE [kind           |-> "ok",
              shared_secrets |-> [i \in 1..Path_size |->
                                    IF i <= Len(folded.s) THEN folded.s[i] ELSE ZeroSecret],
              public_key     |-> public_key]

\* Packet::data: the shared secrets of a route, padded to N, and the ephemeral point
data(session_key, path) ==
    LET public_key == paired(session_key)
        folded == try_fold([ok |-> TRUE, s |-> <<>>, secret |-> session_key,
                            public |-> public_key], path, 1)
    IN  IF ~folded.ok THEN [kind |-> "error"]
        ELSE IF Len(folded.s) > Path_size THEN [kind |-> "panic"]
        ELSE [kind           |-> "ok",
              shared_secrets |-> [i \in 1..Path_size |->
                                    IF i <= Len(folded.s) THEN folded.s[i] ELSE ZeroSecret],
              public_key     |-> public_key]

\* mutant of filler: the stream is not sought, the filler is read from offset 0
RECURSIVE filler_unseeked(_, _, _, _)
filler_unseeked(routing_info, shared_secrets, length, i) ==
    IF i >= length THEN [ok |-> TRUE, raw |-> routing_info]
    ELSE LET s     == rho(shared_secrets[i + 1])
             start == Path_size - length
         IN  IF start < 0 THEN [ok |-> FALSE, raw |-> routing_info]
             ELSE filler_unseeked(xor_slots(routing_info, start, start + i + 1, s).raw,
                                  shared_secrets, length, i + 1)

\* mutant of filler: the stream is sought one slot short
RECURSIVE filler_seek_short(_, _, _, _)
filler_seek_short(routing_info, shared_secrets, length, i) ==
    IF i >= length THEN [ok |-> TRUE, raw |-> routing_info]
    ELSE LET size  == PayloadHmac_size
             s     == seek_to(rho(shared_secrets[i + 1]), size * (Path_size - i - 1))
             start == Path_size - length
         IN  IF start < 0 THEN [ok |-> FALSE, raw |-> routing_info]
             ELSE filler_seek_short(xor_slots(routing_info, start, start + i + 1, s).raw,
                                    shared_secrets, length, i + 1)

\* mutant of filler: the loop XORs no keystream into the path
filler_none(routing_info, shared_secrets, length, i) ==
    [ok |-> Path_size - length >= 0, raw |-> routing_info]

\* iterations i..length-1 of the filler loop of Packet::new
RECURSIVE filler(_, _, _, _)
filler(routing_info, shared_secrets, length, i) ==
    IF i >= length THEN [ok |-> TRUE, raw |-> routing_info]
    ELSE LET size  == PayloadHmac_size
             s     == seek_to(rho(shared_secrets[i + 1]), size * (Path_size - i))
             start == Path_size - length
         IN  IF start < 0 THEN [ok |-> FALSE, raw |-> routing_info]
             ELSE filler(xor_slots(routing_info, start, start + i + 1, s).raw,
                         shared_secrets, length, i + 1)

\* mutant of layer: the message is not encrypted
layer_plain_message(st, shared_secrets, associated_data, index, payload) ==
    LET pushed  == push(st.routing_info, [data |-> payload, hmac |-> st.hmac])
        routing == Path_bitxor_assign(pushed, rho(shared_secrets[index + 1])).raw
    IN  [routing_info |-> routing,
         message      |-> st.message,
         hmac         |-> calc_hmac(shared_secrets[index + 1], routing, associated_data)]

\* mutant of layer: the path is not encrypted
layer_clear_path(st, shared_secrets, associated_data, index, payload) ==
    LET pushed  == push(st.routing_info, [data |-> payload, hmac |-> st.hmac])
        message == xor_read(pi(shared_secrets[index + 1]), st.message).buf
    IN  [routing_info |-> pushed,
         message      |-> message,
         hmac         |-> calc_hmac(shared_secrets[index + 1], pushed, associated_data)]

\* the closure of for_each in Packet::new for one (index, payload), index from 0
layer(st, shared_secrets, associated_data, index, payload) ==
    LET pushed  == push(st.routing_info, [data |-> payload, hmac |-> st.hmac])
        routing == Path_bitxor_assign(pushed, rho(shared_secrets[index + 1])).raw
        message == xor_read(pi(shared_secrets[index + 1]), st.message).buf
    IN  [routing_info |-> routing,
         message      |-> message,
         hmac         |-> calc_hmac(shared_secrets[index + 1], routing, associated_data)]

\* payloads.enumerate().rev().for_each: the closure run for Len(payloads)-1 down to index
RECURSIVE rev_for_each(_, _, _, _, _)
rev_for_each(st, shared_secrets, associated_data, payloads, index) ==
    IF index >= Len(payloads) THEN st
    ELSE layer(rev_for_each(st, shared_secrets, associated_data, payloads, index + 1),
               shared_secrets, associated_data, index, payloads[index + 1])

\* mutant of new: the filler is laid out for as many hops as secrets were derived
new_filler_by_route(d, associated_data, payloads, message) ==
    LET length == Cardinality({i \in 1..Path_size : d.shared_secrets[i] # ZeroSecret})
        fill == filler(Path_new, d.shared_secrets, length, 0)
        st   == rev_for_each([routing_info |-> fill.raw, hmac |-> ZeroBytes(M),
                              message |-> message],
                             d.shared_secrets, associated_data, payloads, 0)
    IN  IF ~fill.ok \/ Len(payloads) > Path_size THEN [kind |-> "panic"]
        ELSE [kind   |-> "ok",
              packet |-> [public_key   |-> d.public_key,
                          routing_info |-> st.routing_info,
                          hmac         |-> st.hmac,
                          message      |-> st.message]]

\* mutant of new: a path no layer was written on is tagged under the first secret
new_tagged(d, associated_data, payloads, message) ==
    LET fill == filler(Path_new, d.shared_secrets, Len(payloads), 0)
        st   == rev_for_each([routing_info |-> fill.raw, hmac |-> ZeroBytes(M),
                              message |-> message],
                             d.shared_secrets, associated_data, payloads, 0)
    IN  IF ~fill.ok THEN [kind |-> "panic"]
        ELSE [kind   |-> "ok",
              packet |-> [public_key   |-> d.public_key,
                          routing_info |-> st.routing_info,
                          hmac         |-> IF Len(payloads) = 0
                                           THEN calc_hmac(d.shared_secrets[1],
                                                          st.routing_info, associated_data)
                                           ELSE st.hmac,
                          message      |-> st.message]]

\* Packet::new
new(d, associated_data, payloads, message) ==
    LET fill == filler(Path_new, d.shared_secrets, Len(payloads), 0)
        st   == rev_for_each([routing_info |-> fill.raw, hmac |-> ZeroBytes(M),
                              message |-> message],
                             d.shared_secrets, associated_data, payloads, 0)
    IN  IF ~fill.ok THEN [kind |-> "panic"]
        ELSE [kind   |-> "ok",
              packet |-> [public_key   |-> d.public_key,
                          routing_info |-> st.routing_info,
                          hmac         |-> st.hmac,
                          message      |-> st.message]]

\* Packet::accept
accept(packet, secret_key) ==
    LET public_key == packet.public_key
        temp == dh(secret_key, public_key)
        shared_secret == tau(temp.v)
        blind == blinding(public_key, shared_secret)
        next_dh_key == dh(from_inner(blind), public_key)
    IN  IF ~temp.ok \/ ~next_dh_key.ok THEN [ok |-> FALSE]
        ELSE [ok            |-> TRUE,
              this_id       |-> public_key,
              next_id       |-> next_dh_key.v,
              shared_secret |-> shared_secret]

\* mutant of process: the message is not decrypted
process_keep_message(packet, associated_data, local) ==
    LET hmac   == calc_hmac(local.shared_secret, packet.routing_info, associated_data)
        stream == rho(local.shared_secret)
        popped == pop(packet.routing_info)
        item   == PayloadHmac_bitxor_assign(popped.item, stream)
        routing_info == Path_bitxor_assign(popped.raw, item.stream).raw
        message == packet.message
    IN  IF packet.hmac # hmac
        THEN [kind |-> "MacMismatch", routing_info |-> packet.routing_info,
              message |-> packet.message]
        ELSE IF item.slot.hmac = ZeroBytes(M)
        THEN [kind |-> "Exit", data |-> item.slot.data, item_hmac |-> item.slot.hmac,
              routing_info |-> routing_info, message |-> message]
        ELSE [kind |-> "Forward", data |-> item.slot.data, item_hmac |-> item.slot.hmac,
              routing_info |-> routing_info, message |-> message,
              next |-> [public_key   |-> local.next_id,
                        routing_info |-> routing_info,
                        hmac         |-> item.slot.hmac,
                        message      |-> message]]

\* mutant of process: the terminator is tested on the slot as received
process_raw_terminator(packet, associated_data, local) ==
    LET hmac   == calc_hmac(local.shared_secret, packet.routing_info, associated_data)
        stream == rho(local.shared_secret)
        popped == pop(packet.routing_info)
        item   == PayloadHmac_bitxor_assign(popped.item, stream)
        routing_info == Path_bitxor_assign(popped.raw, item.stream).raw
        message == xor_read(pi(local.shared_secret), packet.message).buf
    IN  IF packet.hmac # hmac
        THEN [kind |-> "MacMismatch", routing_info |-> packet.routing_info,
              message |-> packet.message]
        ELSE IF popped.item.hmac = ZeroBytes(M)
        THEN [kind |-> "Exit", data |-> item.slot.data, item_hmac |-> item.slot.hmac,
              routing_info |-> routing_info, message |-> message]
        ELSE [kind |-> "Forward", data |-> item.slot.data, item_hmac |-> item.slot.hmac,
              routing_info |-> routing_info, message |-> message,
              next |-> [public_key   |-> local.next_id,
                        routing_info |-> routing_info,
                        hmac         |-> item.slot.hmac,
                        message      |-> message]]

\* mutant of process: the path and the message are decrypted before the MAC check
process_decrypt_first(packet, associated_data, local) ==
    LET hmac   == calc_hmac(local.shared_secret, packet.routing_info, associated_data)
        stream == rho(local.shared_secret)
        popped == pop(packet.routing_info)
        item   == PayloadHmac_bitxor_assign(popped.item, stream)
        routing_info == Path_bitxor_assign(popped.raw, item.stream).raw
        message == xor_read(pi(local.shared_secret), packet.message).buf
    IN  IF packet.hmac # hmac
        THEN [kind |-> "MacMismatch", routing_info |-> routing_info,
              message |-> message]
        ELSE IF item.slot.hmac = ZeroBytes(M)
        THEN [kind |-> "Exit", data |-> item.slot.data, item_hmac |-> item.slot.hmac,
              routing_info |-> routing_info, message |-> message]
        ELSE [kind |-> "Forward", data |-> item.slot.data, item_hmac |-> item.slot.hmac,
              routing_info |-> routing_info, message |-> message,
              next |-> [public_key   |-> local.next_id,
                        routing_info |-> routing_info,
                        hmac         |-> item.slot.hmac,
                        message      |-> message]]

\* mutant of process: the shifted path is XORed with the stream from its start again
process_rewound(packet, associated_data, local) ==
    LET hmac   == calc_hmac(local.shared_secret, packet.routing_info, associated_data)
        stream == rho(local.shared_secret)
        popped == pop(packet.routing_info)
        item   == PayloadHmac_bitxor_assign(popped.item, stream)
        routing_info == Path_bitxor_assign(popped.raw, stream).raw
        message == xor_read(pi(local.shared_secret), packet.message).buf
    IN  IF packet.hmac # hmac
        THEN [kind |-> "MacMismatch", routing_info |-> packet.routing_info,
              message |-> packet.message]
        ELSE IF item.slot.hmac = ZeroBytes(M)
        THEN [kind |-> "Exit", data |-> item.slot.data, item_hmac |-> item.slot.hmac,
              routing_info |-> routing_info, message |-> message]
        ELSE [kind |-> "Forward", data |-> item.slot.data, item_hmac |-> item.slot.hmac,
              routing_info |-> routing_info, message |-> message,
              next |-> [public_key   |-> local.next_id,
                        routing_info |-> routing_info,
                        hmac         |-> item.slot.hmac,
                        message      |-> message]]

\* mutant of process: the payload returned depends on a count of the earlier calls
process_counting(packet, associated_data, local) ==
    LET hmac   == calc_hmac(local.shared_secret, packet.routing_info, associated_data)
        stream == rho(local.shared_secret)
        popped == pop(packet.routing_info)
        item   == PayloadHmac_bitxor_assign(popped.item, stream)
        routing_info == Path_bitxor_assign(popped.raw, item.stream).raw
        message == xor_read(pi(local.shared_secret), packet.message).buf
        data_n == [item.slot.data EXCEPT
                     ![1] = Xor(@, {Atom("count", ZeroSecret, <<>>, Len(outputs))})]
    IN  IF packet.hmac # hmac
        THEN [kind |-> "MacMismatch", routing_info |-> packet.routing_info,
              message |-> packet.message]
        ELSE IF item.slot.hmac = ZeroBytes(M)
        THEN [kind |-> "Exit", data |-> data_n, item_hmac |-> item.slot.hmac,
              routing_info |-> routing_info, message |-> message]
        ELSE [kind |-> "Forward", data |-> data_n, item_hmac |-> item.slot.hmac,
              routing_info |-> routing_info, message |-> message,
              next |-> [public_key   |-> local.next_id,
                        routing_info |-> routing_info,
                        hmac         |-> item.slot.hmac,
                        message      |-> message]]

\* mutant of process: the successor packet keeps the ephemeral point as received
process_stale_point(packet, associated_data, local) ==
    LET hmac   == calc_hmac(local.shared_secret, packet.routing_info, associated_data)
        stream == rho(local.shared_secret)
        popped == pop(packet.routing_info)
        item   == PayloadHmac_bitxor_assign(popped.item, stream)
        routing_info == Path_bitxor_assign(popped.raw, item.stream).raw
        message == xor_read(pi(local.shared_secret), packet.message).buf
    IN  IF packet.hmac # hmac
        THEN [kind |-> "MacMismatch", routing_info |-> packet.routing_info,
              message |-> packet.message]
        ELSE IF item.slot.hmac = ZeroBytes(M)
        THEN [kind |-> "Exit", data |-> item.slot.data, item_hmac |-> item.slot.hmac,
              routing_info |-> routing_info, message |-> message]
        ELSE [kind |-> "Forward", data |-> item.slot.data, item_hmac |-> item.slot.hmac,
              routing_info |-> routing_info, message |-> message,
              next |-> [public_key   |-> packet.public_key,
                        routing_info |-> routing_info,
                        hmac         |-> item.slot.hmac,
                        message      |-> message]]

\* Packet::process; routing_info and message are the locals as they are at return
process(packet, associated_data, local) ==
    LET hmac   == calc_hmac(local.shared_secret, packet.routing_info, associated_data)
        stream == rho(local.shared_secret)
        popped == pop(packet.routing_info)
        item   == PayloadHmac_bitxor_assign(popped.item, stream)
        routing_info == Path_bitxor_assign(popped.raw, item.stream).raw
        message == xor_read(pi(local.shared_secret), packet.message).buf
    IN  IF packet.hmac # hmac
        THEN [kind |-> "MacMismatch", routing_info |-> packet.routing_info,
              message |-> packet.message]
        ELSE IF item.slot.hmac = ZeroBytes(M)
        THEN [kind |-> "Exit", data |-> item.slot.data, item_hmac |-> item.slot.hmac,
              routing_info |-> routing_info, message |-> message]
        ELSE [kind |-> "Forward", data |-> item.slot.data, item_hmac |-> item.slot.hmac,
              routing_info |-> routing_info, message |-> message,
              next |-> [public_key   |-> local.next_id,
                        routing_info |-> routing_info,
                        hmac         |-> item.slot.hmac,
                        message      |-> message]]

\* ------------------------------------------------- one-shot form (lib.rs)
\* const MAX_HOPS_NUMBER: the fixed path size of OnionPacket (20 in the code).  The
\* one-shot form is set against Packet instantiated at N = MAX_HOPS_NUMBER, so it
\* follows the bound N
MAX_HOPS_NUMBER == N

\* KeyType::key: MAC_key_type(input)
KeyType_key(key_type, input) == <<key_type, key_of(input)>>

\* PseudoRandomStream::seed
PseudoRandomStream_seed(v) == [tag |-> v[1], key |-> v[2], pos |-> 0]

\* Path::new of lib.rs
OnionPath_new == [i \in 1..MAX_HOPS_NUMBER |-> PayloadHmac_default]

\* Path::push of lib.rs
OnionPath_push(raw, item) == [shift_right(raw, MAX_HOPS_NUMBER - 1) EXCEPT ![1] = item]

\* BitXorAssign for Path of lib.rs
OnionPath_bitxor_assign(raw, rhs) == xor_slots(raw, 0, MAX_HOPS_NUMBER, rhs)

\* Path::calc_hmac of lib.rs; the key MAC_"mu"(s) is the key of Sphinx::mu(s)
OnionPath_calc_hmac(raw, mu_key, associated_data) ==
    LET mac == [key |-> IF mu_key[1] = "mu" THEN mu_key[2] ELSE mu_key, input |-> <<>>]
    IN  output(chain(fold_hops(mac, raw, 1), associated_data))

\* the closure of try_fold in OnionPacket::new, applied to route[i..]
RECURSIVE OnionPacket_try_fold(_, _, _)
OnionPacket_try_fold(acc, route, i) ==
    IF ~acc.ok \/ i > Len(route) THEN acc
    ELSE LET temp == dh(acc.secret, route[i].point)
         IN  IF ~temp.ok THEN [acc EXCEPT !.ok = FALSE]
             ELSE LET result == tau(temp.v)
                      blind  == blinding(acc.public, result)
                      secret == mul_assign(acc.secret, blind)
                      public == dh(secret.v, BasePoint)
                  IN  IF ~secret.ok \/ ~public.ok THEN [acc EXCEPT !.ok = FALSE]
                      ELSE OnionPacket_try_fold(
                                    [ok     |-> TRUE,
                                     s      |-> Append(acc.s, result),
                                     p      |-> Append(acc.p, route[i].payload),
                                     secret |-> secret.v,
                                     public |-> public.v], route, i + 1)

\* mutant of OnionPacket_filler: the filler is written from the front of the path
RECURSIVE OnionPacket_filler_front(_, _, _, _)
OnionPacket_filler_front(routing_info, shared_secrets, length, i) ==
    IF i >= length THEN [ok |-> TRUE, raw |-> routing_info]
    ELSE LET rho_key == KeyType_key("rho", shared_secrets[i + 1])
             size    == PayloadHmac_size
             s       == seek_to(PseudoRandomStream_seed(rho_key),
                                size * (MAX_HOPS_NUMBER - i))
         IN  IF MAX_HOPS_NUMBER - length < 0 THEN [ok |-> FALSE, raw |-> routing_info]
             ELSE OnionPacket_filler_front(
                      xor_slots(routing_info, 0, i + 1, s).raw,
                      shared_secrets, length, i + 1)

\* iterations i..length-1 of the filler loop of OnionPacket::new
RECURSIVE OnionPacket_filler(_, _, _, _)
OnionPacket_filler(routing_info, shared_secrets, length, i) ==
    IF i >= length THEN [ok |-> TRUE, raw |-> routing_info]
    ELSE LET rho_key == KeyType_key("rho", shared_secrets[i + 1])
             size    == PayloadHmac_size
             s       == seek_to(PseudoRandomStream_seed(rho_key),
                                size * (MAX_HOPS_NUMBER - i))
             start   == MAX_HOPS_NUMBER - length
         IN  IF start < 0 THEN [ok |-> FALSE, raw |-> routing_info]
             ELSE OnionPacket_filler(
                      xor_slots(routing_info, start, start + i + 1, s).raw,
                      shared_secrets, length, i + 1)

\* payloads.into_iter().enumerate().rev().for_each of OnionPacket::new: the closure run
\* for Len(payloads)-1 down to index
RECURSIVE OnionPacket_layers(_, _, _, _, _)
OnionPacket_layers(st, shared_secrets, associated_data, payloads, index) ==
    IF index >= Len(payloads) THEN st
    ELSE LET inner   == OnionPacket_layers(st, shared_secrets, associated_data, payloads,
                                           index + 1)
             pushed  == OnionPath_push(inner.routing_info,
                                       [data |-> payloads[index + 1], hmac |-> inner.hmac])
             rho_key == KeyType_key("rho", shared_secrets[index + 1])
             routing == OnionPath_bitxor_assign(pushed, PseudoRandomStream_seed(rho_key)).raw
             mu_key  == KeyType_key("mu", shared_secrets[index + 1])
         IN  [routing_info |-> routing,
              hmac         |-> OnionPath_calc_hmac(routing, mu_key, associated_data)]

\* OnionPacket::new: one-shot construction over a route of (point, payload) pairs
OnionPacket_new(session_key, route, associated_data) ==
    LET public_key == paired(session_key)
        folded == OnionPacket_try_fold([ok |-> TRUE, s |-> <<>>, p |-> <<>>,
                                        secret |-> session_key, public |-> public_key],
                                       route, 1)
        fill   == OnionPacket_filler(OnionPath_new, folded.s, Len(folded.s), 0)
        st     == OnionPacket_layers([routing_info |-> fill.raw, hmac |-> ZeroBytes(M)],
                                     folded.s, associated_data, folded.p, 0)
    IN  IF ~folded.ok THEN [kind |-> "error"]
        ELSE IF ~fill.ok THEN [kind |-> "panic"]
        ELSE [kind   |-> "ok",
              packet |-> [ephemeral_public_key |-> public_key,
                          routing_info         |-> st.routing_info,
                          hmac                 |-> st.hmac]]

\* Path::pop of lib.rs
OnionPath_pop(raw) ==
    [item |-> raw[1],
     raw  |-> [shift_left(raw, 1, MAX_HOPS_NUMBER) EXCEPT
                 ![MAX_HOPS_NUMBER] = PayloadHmac_default]]

\* OnionPacket::process: accept and peel in one call, the blinded point computed only
\* when the packet goes on
OnionPacket_process(packet, associated_data, secret_key) ==
    LET public_key    == packet.ephemeral_public_key
        temp          == dh(secret_key, public_key)
        shared_secret == tau(temp.v)
        mu_key        == KeyType_key("mu", shared_secret)
        hmac_received == OnionPath_calc_hmac(packet.routing_info, mu_key, associated_data)
        rho_key       == KeyType_key("rho", shared_secret)
        stream        == PseudoRandomStream_seed(rho_key)
        popped        == OnionPath_pop(packet.routing_info)
        item          == PayloadHmac_bitxor_assign(popped.item, stream)
        routing_info  == OnionPath_bitxor_assign(popped.raw, item.stream).raw
        blind         == blinding(public_key, shared_secret)
        next_dh_key   == dh(from_inner(blind), public_key)
    IN  IF ~temp.ok THEN [kind |-> "error"]
        ELSE IF hmac_received # packet.hmac THEN [kind |-> "TagError"]
        ELSE IF item.slot.hmac = ZeroBytes(M)
        THEN [kind |-> "ExitNode", output |-> item.slot.data]
        ELSE IF ~next_dh_key.ok THEN [kind |-> "error"]
        ELSE [kind   |-> "MoreHops",
              next   |-> [ephemeral_public_key |-> next_dh_key.v,
                          routing_info         |-> routing_info,
                          hmac                 |-> item.slot.hmac],
              output |-> item.slot.data]

\* ------------------------------------------------------------------ inputs
\* byte j of the payload of hop i (hops counted from 1)
Payload(i) == [j \in 1..L |-> {Atom("payload", ZeroSecret, <<>>, (i - 1) * L + j)}]

Payloads(n) == [i \in 1..n |-> Payload(i)]

ClearMessage == [j \in 1..MsgLen |-> {Atom("message", ZeroSecret, <<>>, j)}]

\* a second list of payloads for the same route
OtherPayload(i) ==
    [j \in 1..L |-> {Atom("payload", ZeroSecret, <<>>, (N + 1) * L + (i - 1) * L + j)}]

\* the payload lists a sender may hand to Packet::new
Variants == {1, 2}

PayloadsOf(v, n) == IF v = 1 THEN Payloads(n) ELSE [i \in 1..n |-> OtherPayload(i)]

\* the route of (point, payload) pairs handed to one-shot construction
zip(path, payloads) == [i \in 1..Len(path) |-> [point |-> path[i], payload |-> payloads[i]]]

\* the associated data a caller may present: none, or one byte
ADs == {<<>>, <<{Atom("ad", ZeroSecret, <<>>, 1)}>>}

\* a bit an adversary flips
Flip == {Atom("flip", ZeroSecret, <<>>, 0)}

NoPacket == [public_key |-> EmptyBag, routing_info |-> <<>>, hmac |-> <<>>, message |-> <<>>]

NoCall == [hop |-> 0, result |-> [kind |-> "none"]]

NoTamper == [field |-> "none", index |-> 0]

\* no call on the path yet
NoOp == [op |-> "none", steps |-> 0, before |-> <<>>, item |-> <<>>, out |-> <<>>,
         path |-> <<>>, stream |-> <<>>, after |-> <<>>]

\* slots a caller may push: a payload with a zero hmac or with a tag
Slots ==
    {[data |-> Payload(i), hmac |-> t] :
        i \in 1..2, t \in {ZeroBytes(M), [j \in 1..M |-> {Atom("tag", ZeroSecret, <<>>, j)}]}}

\* keystreams a caller may hold: fresh, or sought one slot ahead
Streams == {rho(ZeroSecret), seek_to(rho(ZeroSecret), PayloadHmac_size)}

\* ----------------------------------------------------------------- actions
Init ==
    /\ keys \in UNION {[1..k -> HopKeys] : k \in 0..(N + 1)}
    /\ \E bad \in 0..Len(keys) :
          points = [i \in 1..Len(keys) |->
                      IF i = bad THEN Infinity ELSE paired(Scalar(keys[i]))]
    /\ npay \in 0..(N + 1)
    /\ ad0 \in ADs
    /\ hzero \in 0..Len(keys)
    /\ pc = "start"
    /\ derived = [kind |-> "none"]
    /\ built = <<>>
    /\ pkt = NoPacket
    /\ hop = 0
    /\ outputs = <<>>
    /\ last = NoCall
    /\ tamper = NoTamper
    /\ honest = TRUE
    /\ variant = 1
    /\ first = NoPacket
    /\ h = NoOp

\* the sender derives the shared secrets of the route
CallData ==
    /\ pc = "start"
    /\ derived' = data(Scalar(SessionKey), points)
    /\ pc' = IF derived'.kind = "ok" THEN "derived" ELSE derived'.kind
    /\ UNCHANGED <<keys, points, npay, ad0, hzero, built, pkt, hop, outputs, last,
                   tamper, honest, variant, first, h>>

\* the sender assembles the packet over the derived secrets
CallNew ==
    /\ pc = "derived"
    /\ LET r == new(derived, ad0, Payloads(npay), ClearMessage)
       IN  IF r.kind = "ok"
           THEN /\ pkt' = r.packet
                /\ built' = [i \in 1..npay |->
                               rev_for_each(
                                 [routing_info |->
                                    filler(Path_new, derived.shared_secrets, npay, 0).raw,
                                  hmac |-> ZeroBytes(M), message |-> ClearMessage],
                                 derived.shared_secrets, ad0, Payloads(npay),
                                 i - 1).routing_info]
                /\ hop' = 1
                /\ pc' = "inflight"
           ELSE /\ pc' = "panic"
                /\ UNCHANGED <<pkt, built, hop>>
    /\ UNCHANGED <<keys, points, npay, ad0, hzero, derived, outputs, last, tamper, honest,
                   variant, first, h>>

\* the sender, before sending the first packet, assembles another one over the same
\* derived value
CallNewAgain(v) ==
    /\ pc = "inflight" /\ hop = 1 /\ last = NoCall /\ tamper = NoTamper
    /\ first = NoPacket
    /\ LET r == new(derived, ad0, PayloadsOf(v, npay), ClearMessage)
       IN  /\ r.kind = "ok"
           /\ pkt' = r.packet
    /\ built' = [i \in 1..npay |->
                   rev_for_each(
                     [routing_info |-> filler(Path_new, derived.shared_secrets, npay, 0).raw,
                      hmac |-> ZeroBytes(M), message |-> ClearMessage],
                     derived.shared_secrets, ad0, PayloadsOf(v, npay), i - 1).routing_info]
    /\ first' = pkt
    /\ variant' = v
    /\ UNCHANGED <<keys, points, npay, ad0, hzero, pc, derived, hop, outputs, last, tamper,
                   honest, h>>

\* an adversary alters one byte, or the ephemeral point, of the packet in flight
Tamper(field, j) ==
    /\ pc = "inflight"
    /\ tamper = NoTamper
    /\ tamper' = [field |-> field, index |-> j]
    /\ pkt' = CASE field = "routing_info" ->
                    LET slot == ((j - 1) \div PayloadHmac_size) + 1
                        off  == ((j - 1) % PayloadHmac_size) + 1
                    IN  [pkt EXCEPT !.routing_info[slot] =
                           IF off <= L THEN [@ EXCEPT !.data[off] = Xor(@, Flip)]
                           ELSE [@ EXCEPT !.hmac[off - L] = Xor(@, Flip)]]
               [] field = "hmac" -> [pkt EXCEPT !.hmac[j] = Xor(@, Flip)]
               [] field = "message" -> [pkt EXCEPT !.message[j] = Xor(@, Flip)]
               [] field = "ephemeral" -> [pkt EXCEPT !.public_key = @ (+) Scalar(7)]
    /\ UNCHANGED <<keys, points, npay, ad0, hzero, pc, derived, built, hop, outputs, last,
                   honest, variant, first, h>>

TamperAny ==
    \/ \E j \in 1..(N * (L + M)) : Tamper("routing_info", j)
    \/ \E j \in 1..M : Tamper("hmac", j)
    \/ \E j \in 1..MsgLen : Tamper("message", j)
    \/ Tamper("ephemeral", 1)

\* a party holding secret scalar y accepts and processes the packet in flight
CallProcess(y, associated_data) ==
    /\ pc = "inflight"
    /\ LET local == accept(pkt, Scalar(y))
           r == IF local.ok THEN process(pkt, associated_data, local)
                ELSE [kind |-> "error", routing_info |-> pkt.routing_info,
                      message |-> pkt.message]
       IN  /\ last' = [key |-> y, ad |-> associated_data, hop |-> hop, packet |-> pkt,
                       honest |-> honest, tamper |-> tamper, local |-> local,
                       result |-> r]
           /\ pc' = CASE r.kind = "Forward" -> "inflight"
                      [] r.kind = "Exit" -> "exit"
                      [] r.kind = "MacMismatch" -> "rejected"
                      [] OTHER -> "error"
           /\ pkt' = IF r.kind = "Forward" THEN r.next ELSE pkt
           /\ hop' = IF r.kind = "Forward" THEN hop + 1 ELSE hop
           /\ outputs' = IF r.kind \in {"Forward", "Exit"} THEN Append(outputs, r.data)
                         ELSE outputs
    /\ honest' = (honest /\ hop <= Len(keys) /\ y = keys[hop] /\ associated_data = ad0)
    /\ UNCHANGED <<keys, points, npay, ad0, hzero, derived, built, tamper, variant, first,
                   h>>

Next ==
    \/ CallData
    \/ CallNew
    \/ TamperAny
    \/ \E y \in HopKeys, a \in ADs : CallProcess(y, a)

Spec == Init /\ [][Next]_vars

\* ------------------------------------------------- the path taken alone
\* Path::new
PathInit ==
    /\ keys = <<>> /\ points = <<>> /\ npay = 0 /\ ad0 = <<>> /\ hzero = 0
    /\ pc = "start" /\ derived = [kind |-> "none"] /\ built = <<>> /\ pkt = NoPacket
    /\ hop = 0 /\ outputs = <<>> /\ last = NoCall /\ tamper = NoTamper /\ honest = TRUE
    /\ variant = 1 /\ first = NoPacket
    /\ h = [NoOp EXCEPT !.op = "new", !.path = Path_new]

\* path.push(item)
CallPush(item) ==
    /\ h.op # "none" /\ h.steps < MaxOps
    /\ h' = [NoOp EXCEPT !.op = "push", !.steps = h.steps + 1, !.before = h.path,
                         !.item = item, !.path = push(h.path, item)]
    /\ UNCHANGED packet_vars

\* path.pop()
CallPop ==
    /\ h.op # "none" /\ h.steps < MaxOps
    /\ LET r == pop(h.path)
       IN  h' = [NoOp EXCEPT !.op = "pop", !.steps = h.steps + 1, !.before = h.path,
                            !.item = r.item, !.path = r.raw]
    /\ UNCHANGED packet_vars

\* path ^= &mut stream
CallXorPath(stream) ==
    /\ h.op # "none" /\ h.steps < MaxOps
    /\ LET r == Path_bitxor_assign(h.path, stream)
       IN  h' = [NoOp EXCEPT !.op = "xor_path", !.steps = h.steps + 1, !.before = h.path,
                            !.path = r.raw, !.stream = stream, !.after = r.stream]
    /\ UNCHANGED packet_vars

\* path.as_mut()[i - 1] ^= &mut stream
CallXorSlot(i, stream) ==
    /\ h.op # "none" /\ h.steps < MaxOps
    /\ LET r == PayloadHmac_bitxor_assign(h.path[i], stream)
       IN  h' = [NoOp EXCEPT !.op = "xor_slot", !.steps = h.steps + 1, !.before = h.path,
                            !.item = h.path[i], !.out = r.slot,
                            !.path = [h.path EXCEPT ![i] = r.slot],
                            !.stream = stream, !.after = r.stream]
    /\ UNCHANGED packet_vars

PathNext ==
    \/ \E item \in Slots : CallPush(item)
    \/ CallPop
    \/ \E stream \in Streams : CallXorPath(stream)
    \/ \E i \in 1..Path_size, stream \in Streams : CallXorSlot(i, stream)

PathSpec == PathInit /\ [][PathNext]_vars

\* the split form used twice: derive once, assemble, assemble again, then send
SplitNext ==
    \/ CallData
    \/ CallNew
    \/ \E v \in Variants : CallNewAgain(v)
    \/ \E y \in HopKeys, a \in ADs : CallProcess(y, a)

SplitSpec == Init /\ [][SplitNext]_vars

\* ------------------------------------------------------------- properties
\* the call recorded in last was made by the hop the packet was addressed to, with the
\* associated data of construction, on a packet that reached it through such calls only
HonestCall ==
    /\ last.hop >= 1
    /\ last.hop <= Len(keys)
    /\ last.honest
    /\ last.key = keys[last.hop]
    /\ last.ad = ad0

\* C1: a packet built by one-shot construction over a route of k hops, 1 <= k <= N, and
\* processed by the hops in route order with the associated data of construction gives
\* back the payloads in route order; hops 1..k-1 return Forward and hop k returns Exit.
C1_RoundTrip ==
    (HonestCall /\ last.tamper = NoTamper /\ npay = Len(keys)) =>
        /\ last.result.kind = IF last.hop = npay THEN "Exit" ELSE "Forward"
        /\ outputs = Payloads(last.hop)

C1_Witness ==
    /\ pc = "exit" /\ honest /\ tamper = NoTamper
    /\ npay = N /\ Len(keys) = N /\ Len(outputs) = N
    /\ ad0 # <<>>

\* C2: in such a run the message returned with Exit by hop k is the clear message
\* handed to construction.
C2_MessageRecovered ==
    (HonestCall /\ last.tamper = NoTamper /\ npay = Len(keys)
       /\ last.result.kind = "Exit") =>
        last.result.message = ClearMessage

C2_Witness ==
    /\ pc = "exit" /\ honest /\ tamper = NoTamper
    /\ npay = Len(keys) /\ npay >= 2
    /\ last.packet.message # ClearMessage
    /\ last.result.message = ClearMessage

\* C3: a process call on a packet built by one-shot construction and forwarded by the
\* hops before, whose routing_info or hmac field was altered or which comes with
\* associated data other than that of construction, fails with MacMismatch.
C3_HeaderIntegrity ==
    (last.hop >= 1 /\ last.honest /\ npay = Len(keys) /\ npay >= 1
       /\ \/ last.tamper.field \in {"routing_info", "hmac"}
          \/ last.tamper = NoTamper /\ last.ad # ad0) =>
        last.result.kind = "MacMismatch"

C3_Witness ==
    /\ pc = "rejected" /\ last.hop = 2 /\ Len(keys) >= 2 /\ npay = Len(keys)
    /\ last.honest /\ last.key = keys[2]
    /\ last.tamper = NoTamper /\ last.ad # ad0

\* C4 as claimed: a process call by the addressed hop on a packet whose message field
\* was altered fails with MacMismatch.
C4_Original ==
    (HonestCall /\ last.tamper.field = "message") =>
        last.result.kind = "MacMismatch"

\* C4 as amended: the message is outside the MAC; the addressed hop processes a packet
\* whose message byte was altered as it would the intact one, and the message that
\* leaves at the exit is the clear message with exactly the altered byte changed.
C4_MessageMalleable ==
    (HonestCall /\ last.tamper.field = "message" /\ npay = Len(keys)) =>
        /\ last.result.kind = IF last.hop = npay THEN "Exit" ELSE "Forward"
        /\ last.result.data = Payload(last.hop)
        /\ last.result.kind = "Exit" =>
              last.result.message =
                [ClearMessage EXCEPT ![last.tamper.index] = Xor(@, Flip)]

C4_Witness ==
    /\ pc = "exit" /\ honest /\ tamper.field = "message"
    /\ npay = Len(keys) /\ npay >= 2
    /\ last.result.message # ClearMessage

\* C5: a process call on an intact packet built by one-shot construction, with the
\* secret scalar of a party other than the addressed hop, fails with MacMismatch.
C5_HopBinding ==
    (last.hop >= 1 /\ last.hop <= Len(keys) /\ last.honest /\ npay = Len(keys)
       /\ last.tamper = NoTamper /\ last.key # keys[last.hop]) =>
        last.result.kind = "MacMismatch"

C5_Witness ==
    /\ pc = "rejected" /\ last.hop = 2 /\ Len(keys) >= 2 /\ npay = Len(keys)
    /\ last.honest /\ last.tamper = NoTamper
    /\ last.ad = ad0 /\ last.key # keys[2] /\ last.key = keys[1]

\* Serialize for Packet: the width of the tuple written on the wire
serialize_len(packet) ==
    PointLen + Len(fold_hops(mu(ZeroSecret), packet.routing_info, 1).input)
        + Len(packet.hmac) + Len(packet.message)

\* C6: every packet returned by construction and every successor packet has N slots of
\* L data bytes and M hmac bytes, hence one serialised length whatever the route
\* length and the hop (4096 bytes in the instantiation of the test).
C6_FixedSize ==
    (pkt # NoPacket) =>
        /\ Len(pkt.routing_info) = N
        /\ \A i \in 1..Len(pkt.routing_info) :
              Len(pkt.routing_info[i].data) = L /\ Len(pkt.routing_info[i].hmac) = M
        /\ serialize_len(pkt) = PointLen + N * (L + M) + M + MsgLen
        /\ PointLen + TEST_N * (TEST_L + TEST_M) + TEST_M + MESSAGE_LENGTH = 4096

C6_Witness ==
    /\ pc = "inflight" /\ hop = 2 /\ npay = 2 /\ Len(keys) = 2 /\ N > 2
    /\ serialize_len(pkt) = PointLen + N * (L + M) + M + MsgLen

\* the front slot of a path decrypted with the first L+M bytes of rho(shared)
PeeledFront(raw, shared) == PayloadHmac_bitxor_assign(raw[1], rho(shared)).slot

\* C7: a process call that passes the MAC check returns Exit exactly when the hmac
\* field of the decrypted front slot is all-zero, Forward otherwise; the hmac field of
\* the slot construction writes for the last hop is all-zero.
C7_Terminator ==
    /\ (last.result.kind \in {"Forward", "Exit"}) =>
          ((last.result.kind = "Exit") <=>
             (PeeledFront(last.packet.routing_info, last.local.shared_secret).hmac
                = ZeroBytes(M)))
    /\ (pkt # NoPacket /\ npay >= 1) =>
          PeeledFront(built[npay], derived.shared_secrets[npay]).hmac = ZeroBytes(M)

C7_Witness ==
    /\ pc = "exit" /\ honest /\ tamper = NoTamper /\ npay = Len(keys) /\ npay >= 2
    /\ last.packet.routing_info[1].hmac # ZeroBytes(M)
    /\ PeeledFront(last.packet.routing_info, last.local.shared_secret).hmac = ZeroBytes(M)

\* C8: the shared secret a hop of the route derives from its scalar and the ephemeral
\* point it receives is the one the sender derived for that hop; hop 1 receives
\* x * base, and every later hop the point the hop before it blinded.
C8_SharedSecretAgreement ==
    (HonestCall /\ last.tamper.field # "ephemeral") =>
        /\ last.local.ok
        /\ last.local.shared_secret = derived.shared_secrets[last.hop]
        /\ last.hop = 1 => last.packet.public_key = paired(Scalar(SessionKey))
        /\ last.result.kind = "Forward" =>
              last.result.next.public_key =
                dh(from_inner(blinding(last.packet.public_key, last.local.shared_secret)),
                   last.packet.public_key).v

C8_Witness ==
    /\ HonestCall /\ last.tamper = NoTamper /\ last.hop = N /\ npay = N
    /\ last.local.shared_secret = derived.shared_secrets[N]
    /\ keys[1] = keys[N]

\* C9: the routing_info of the successor packet hop i returns is the path the sender
\* held right after writing and encrypting layer i+1.
C9_FillerCoherence ==
    (HonestCall /\ last.tamper.field \in {"none", "message"} /\ npay = Len(keys)
       /\ last.result.kind = "Forward") =>
        last.result.next.routing_info = built[last.hop + 1]

C9_Witness ==
    /\ HonestCall /\ last.tamper = NoTamper /\ last.result.kind = "Forward"
    /\ last.hop = 1 /\ npay = 2 /\ N > 2
    /\ last.result.next.routing_info = built[2]
    /\ last.result.next.routing_info[N] # PayloadHmac_default

\* C10: a process call that fails with MacMismatch returns with routing_info and
\* message as received; and when shared-secret derivation fails, nothing has been
\* assembled: no layer written, no message encrypted.
C10_NoPartialMutation ==
    /\ (last.result.kind = "MacMismatch") =>
          /\ last.result.routing_info = last.packet.routing_info
          /\ last.result.message = last.packet.message
    /\ (derived.kind = "error") => (pc = "error" /\ pkt = NoPacket /\ built = <<>>)

C10_Witness ==
    /\ pc = "rejected" /\ last.hop = 2 /\ last.tamper.field = "routing_info"
    /\ last.result.routing_info = last.packet.routing_info
    /\ last.packet.message # ClearMessage

C10_WitnessGroupError ==
    pc = "error" /\ derived.kind = "error" /\ Len(keys) >= 2 /\ hzero = 2

\* the packet in flight is as Packet::new returned it
Fresh == pc = "inflight" /\ hop = 1 /\ last = NoCall /\ tamper = NoTamper

\* C11: the packet assembled from the derived value and a list of payloads has the
\* ephemeral point, routing_info and hmac that one-shot construction returns for the
\* zipped route; a second packet assembled from the same derived value has the same
\* ephemeral point (and another routing_info when the payloads are others), and each
\* packet gives back its own payloads in route order, Forward at hops 1..k-1 and Exit at
\* hop k.
C11_SplitForm ==
    /\ (Fresh /\ npay = Len(keys)) =>
          LET o == OnionPacket_new(Scalar(SessionKey),
                                   zip(points, PayloadsOf(variant, npay)), ad0)
          IN  /\ o.kind = "ok"
              /\ o.packet.ephemeral_public_key = pkt.public_key
              /\ o.packet.routing_info = pkt.routing_info
              /\ o.packet.hmac = pkt.hmac
    /\ (Fresh /\ first # NoPacket) =>
          /\ pkt.public_key = first.public_key
          /\ (variant = 2 /\ npay >= 1) => pkt.routing_info # first.routing_info
    /\ (HonestCall /\ last.tamper = NoTamper /\ npay = Len(keys)) =>
          /\ last.result.kind = IF last.hop = npay THEN "Exit" ELSE "Forward"
          /\ outputs = PayloadsOf(variant, last.hop)

C11_Witness ==
    /\ pc = "exit" /\ honest /\ first # NoPacket /\ variant = 2
    /\ npay = N /\ Len(keys) = N /\ N >= 2
    /\ outputs = PayloadsOf(2, N)
    /\ outputs # Payloads(N)

\* C12: a packet built over a route of one hop is processed by that hop to Exit with
\* the payload handed to construction, and no byte of its routing_info is zero (slots
\* 2..N carry the rho keystream of the hop); N = 20 in the claim is an instantiation.
C12_SingleHop ==
    /\ (Fresh /\ npay = 1 /\ Len(keys) = 1) =>
          /\ pkt.routing_info # Path_new
          /\ \A i \in 1..N :
                /\ \A j \in 1..L : pkt.routing_info[i].data[j] # {}
                /\ \A j \in 1..M : pkt.routing_info[i].hmac[j] # {}
    /\ (HonestCall /\ last.tamper = NoTamper /\ npay = 1 /\ Len(keys) = 1) =>
          /\ last.result.kind = "Exit"
          /\ last.result.data = Payload(1)

C12_Witness ==
    /\ pc = "exit" /\ honest /\ tamper = NoTamper /\ npay = 1 /\ Len(keys) = 1
    /\ last.hop = 1 /\ N >= 2
    /\ last.result.data = Payload(1)
    /\ last.packet.routing_info[N].data # ZeroBytes(L)

\* routing_info of Packet::new when the filler loop is over and the first layer is about
\* to be pushed
filled == filler(Path_new, derived.shared_secrets, npay, 0).raw

\* C13 as claimed: with k = N the filler loop XORs nothing into the path, which is
\* all-zero when the first layer is pushed, and the packet round-trips.
C13_Original ==
    /\ (Fresh /\ npay = N /\ Len(keys) = N) => filled = Path_new
    /\ (HonestCall /\ last.tamper = NoTamper /\ npay = N /\ Len(keys) = N) =>
          /\ last.result.kind = IF last.hop = N THEN "Exit" ELSE "Forward"
          /\ outputs = Payloads(last.hop)

\* C13 as amended: with k = N the filler loop still runs over slots 0..N-1 (start = 0):
\* no byte of the path is zero when the first layer is pushed; the packet round-trips.
C13_FullRoute ==
    /\ (Fresh /\ npay = N /\ Len(keys) = N) =>
          LET path == filled
          IN  /\ path # Path_new
              /\ \A i \in 1..N :
                    /\ \A j \in 1..L : path[i].data[j] # {}
                    /\ \A j \in 1..M : path[i].hmac[j] # {}
    /\ (HonestCall /\ last.tamper = NoTamper /\ npay = N /\ Len(keys) = N) =>
          /\ last.result.kind = IF last.hop = N THEN "Exit" ELSE "Forward"
          /\ outputs = Payloads(last.hop)

C13_Witness ==
    /\ pc = "exit" /\ honest /\ tamper = NoTamper /\ npay = N /\ Len(keys) = N
    /\ last.hop = N /\ outputs = Payloads(N)
    /\ filled[1].data # ZeroBytes(L)

GroupFailure ==
    \/ \E i \in 1..Len(points) : points[i] = Infinity
    \/ hzero \in 1..Len(keys)

\* C15: when a group operation fails at a hop of the route, Packet::data returns the
\* error and nothing else (no secret of the hops before the failing one, no ephemeral
\* point), no packet is assembled, and one-shot construction over the same route returns
\* the error too; without such a failure no error is returned.
C15_GroupErrorAborts ==
    /\ (GroupFailure /\ pc # "start") =>
          /\ derived = [kind |-> "error"]
          /\ pc = "error" /\ pkt = NoPacket /\ first = NoPacket
    /\ (GroupFailure /\ pc # "start" /\ npay = Len(keys)) =>
          OnionPacket_new(Scalar(SessionKey), zip(points, Payloads(npay)), ad0)
            = [kind |-> "error"]
    /\ (derived.kind = "error") => GroupFailure

C15_Witness ==
    /\ pc = "error" /\ derived.kind = "error" /\ hzero = 0
    /\ Len(keys) = N /\ N >= 2 /\ points[N] = Infinity
    /\ \A i \in 1..(N - 1) : points[i] # Infinity

\* C16: after path.push(item) on a path of N slots, slot 0 is the item, slot i is the
\* former slot i-1 for 1 <= i <= N-1, the former slot N-1 is gone, and the path has N
\* slots.
C16_Push ==
    (h.op = "push") =>
        /\ Len(h.before) = N /\ Len(h.path) = N
        /\ h.path[1] = h.item
        /\ \A i \in 2..N : h.path[i] = h.before[i - 1]
        /\ h.path = <<h.item>> \o SubSeq(h.before, 1, N - 1)

C16_Witness ==
    /\ h.op = "push" /\ N >= 2
    /\ h.before[N] # PayloadHmac_default /\ h.before[1] # h.before[2]
    /\ h.item # h.before[1]
    /\ h.path[2] = h.before[1] /\ h.path[N] # h.before[N]

\* C17: path.pop() on a path of N slots returns the former slot 0; afterwards slot i is
\* the former slot i+1 for 0 <= i <= N-2, slot N-1 is the all-zero slot, and the path
\* has N slots.
C17_Pop ==
    (h.op = "pop") =>
        /\ Len(h.before) = N /\ Len(h.path) = N
        /\ h.item = h.before[1]
        /\ \A i \in 1..(N - 1) : h.path[i] = h.before[i + 1]
        /\ h.path[N] = PayloadHmac_default

C17_Witness ==
    /\ h.op = "pop" /\ N >= 3
    /\ h.before[N] # PayloadHmac_default /\ h.before[2] # h.before[3]
    /\ h.item = h.before[1] /\ h.item # PayloadHmac_default
    /\ h.path[N] = PayloadHmac_default

\* byte p of a keystream
StreamByte(stream, p) == {Atom(stream.tag, stream.key, <<>>, p)}

\* C18: XORing a path with a stream at position p leaves the stream at p + N*(L+M);
\* data byte j of slot i (both from 0) is XORed with stream byte p + i*(L+M) + j and hmac
\* byte j with stream byte p + i*(L+M) + L + j.  XORing one slot leaves the stream at
\* p + L + M, XORs data byte j with stream byte p + j, hmac byte j with byte p + L + j,
\* and touches no other slot.
C18_XorOrder ==
    /\ (h.op = "xor_path") =>
          /\ h.after = [h.stream EXCEPT !.pos = h.stream.pos + N * (L + M)]
          /\ Len(h.path) = N
          /\ \A i \in 1..N :
                /\ h.path[i].data =
                     [j \in 1..L |->
                        Xor(h.before[i].data[j],
                            StreamByte(h.stream, h.stream.pos + (i - 1) * (L + M) + j - 1))]
                /\ h.path[i].hmac =
                     [j \in 1..M |->
                        Xor(h.before[i].hmac[j],
                            StreamByte(h.stream,
                                       h.stream.pos + (i - 1) * (L + M) + L + j - 1))]
    /\ (h.op = "xor_slot") =>
          /\ h.after = [h.stream EXCEPT !.pos = h.stream.pos + L + M]
          /\ h.out.data =
               [j \in 1..L |-> Xor(h.item.data[j], StreamByte(h.stream, h.stream.pos + j - 1))]
          /\ h.out.hmac =
               [j \in 1..M |->
                  Xor(h.item.hmac[j], StreamByte(h.stream, h.stream.pos + L + j - 1))]
          /\ \A i \in 1..N : h.path[i] = h.before[i] \/ (h.before[i] = h.item /\ h.path[i] = h.out)

C18_Witness ==
    /\ h.op = "xor_path" /\ h.stream.pos > 0 /\ N >= 2
    /\ h.before[1] # PayloadHmac_default /\ h.before[N] # h.before[1]
    /\ h.after.pos = h.stream.pos + N * (L + M)
    /\ h.path[N] # h.before[N]

\* byte b of slot t of a path, both from 0: the L data bytes, then the M hmac bytes
ByteAt(raw, t, b) == IF b < L THEN raw[t + 1].data[b + 1] ELSE raw[t + 1].hmac[b - L + 1]

\* the hops i (from 1) of a route of k hops whose filler covers slot t (from 0): hop i
\* covers the i slots N-k .. N-k+i-1
FillerHops(k, t) == {i \in 1..k : N - k <= t /\ t <= N - k + i - 1}

\* C19: when the filler loop of Packet::new is over, byte b of slot t of the path is the
\* XOR, over the hops i whose filler covers slot t, of byte
\* (L+M)*(N-i+1) + (t-(N-k))*(L+M) + b of hop i's rho keystream: hop i's stream is sought
\* to (L+M)*(N-i+1) and its next i*(L+M) bytes go to slots N-k .. N-k+i-1; slots
\* 0 .. N-k-1 are all-zero.
C19_FillerGeneration ==
    Fresh =>
        LET path == filled
        IN  /\ \A t \in 0..(N - 1), b \in 0..(L + M - 1) :
                  ByteAt(path, t, b) =
                    UNION {StreamByte(rho(derived.shared_secrets[i]),
                                      (L + M) * (N - i + 1) + (t - (N - npay)) * (L + M) + b) :
                           i \in FillerHops(npay, t)}
            /\ \A t \in 0..(N - npay - 1) : path[t + 1] = PayloadHmac_default

C19_Witness ==
    /\ Fresh /\ npay = 2 /\ Len(keys) = 2 /\ N >= 3
    /\ filled[N - 2] = PayloadHmac_default
    /\ Cardinality(ByteAt(filled, N - 2, 0)) = 2
    /\ Cardinality(ByteAt(filled, N - 1, L)) = 1

\* the peel as the specification words it: the path extended by one all-zero slot, all
\* N+1 slots XORed with the rho stream from offset 0
ExtendedPeel(raw, shared) ==
    xor_slots(raw \o <<PayloadHmac_default>>, 0, N + 1, rho(shared)).raw

\* C20: when process passes the MAC check, the slot it pops and decrypts and the path it
\* is left with are the front slot and the N slots after it of the extended peel; the
\* new tail slot is the stream bytes N*(L+M) .. (N+1)*(L+M)-1.
C20_PeelEquivalence ==
    (last.result.kind \in {"Forward", "Exit"}) =>
        LET x == ExtendedPeel(last.packet.routing_info, last.local.shared_secret)
        IN  /\ last.result.data = x[1].data
            /\ last.result.item_hmac = x[1].hmac
            /\ last.result.routing_info = Tail(x)
            /\ \A b \in 0..(L + M - 1) :
                  ByteAt(last.result.routing_info, N - 1, b) =
                    StreamByte(rho(last.local.shared_secret), N * (L + M) + b)

C20_Witness ==
    /\ HonestCall /\ last.tamper = NoTamper /\ last.result.kind = "Forward"
    /\ last.hop = 2 /\ npay = N /\ Len(keys) = N
    /\ last.packet.routing_info[N] # PayloadHmac_default
    /\ last.result.routing_info[N - 1] # PayloadHmac_default
    /\ last.result.routing_info =
         Tail(ExtendedPeel(last.packet.routing_info, last.local.shared_secret))

\* the path left of raw once its front slot is taken off, a zero slot put at the tail and
\* all of it XORed with the rho stream of shared from byte L+M on
PeeledPath(raw, shared) ==
    [i \in 1..N |->
        [data |-> [j \in 1..L |->
                     Xor(IF i < N THEN raw[i + 1].data[j] ELSE {},
                         StreamByte(rho(shared), i * (L + M) + j - 1))],
         hmac |-> [j \in 1..M |->
                     Xor(IF i < N THEN raw[i + 1].hmac[j] ELSE {},
                         StreamByte(rho(shared), i * (L + M) + L + j - 1))]]]

\* C21: whenever process returns Forward for a packet with ephemeral point e, and s is the
\* shared secret of the processing hop, the successor packet has ephemeral point
\* blinding(e, s) * e, routing_info the peeled path, hmac the hmac field of the decrypted
\* front slot and message the received message XORed with the um stream of s; the data
\* returned is the data of the decrypted front slot; that packet is the one in flight to
\* the next hop; OnionPacket::process on the same header returns MoreHops with the same
\* point, routing_info, hmac and data.
C21_SuccessorPacket ==
    (last.result.kind = "Forward") =>
        LET e == last.packet.public_key
            s == tau(dh(Scalar(last.key), e).v)
            t == PeeledFront(last.packet.routing_info, s)
            next == last.result.next
            o == OnionPacket_process([ephemeral_public_key |-> e,
                                      routing_info |-> last.packet.routing_info,
                                      hmac |-> last.packet.hmac],
                                     last.ad, Scalar(last.key))
        IN  /\ last.local.ok
            /\ last.local.shared_secret = s
            /\ next.public_key = from_inner(blinding(e, s)) (+) e
            /\ next.routing_info = PeeledPath(last.packet.routing_info, s)
            /\ next.hmac = t.hmac
            /\ next.message = [j \in 1..MsgLen |->
                                 Xor(last.packet.message[j], StreamByte(pi(s), j - 1))]
            /\ last.result.data = t.data
            /\ (tamper = last.tamper) => (pkt = next /\ hop = last.hop + 1)
            /\ o = [kind   |-> "MoreHops",
                    next   |-> [ephemeral_public_key |-> next.public_key,
                                routing_info         |-> next.routing_info,
                                hmac                 |-> next.hmac],
                    output |-> last.result.data]

C21_Witness ==
    /\ HonestCall /\ last.tamper = NoTamper /\ last.result.kind = "Forward"
    /\ last.hop = 2 /\ npay = N /\ Len(keys) = N
    /\ pkt = last.result.next /\ hop = 3
    /\ pkt.public_key # last.packet.public_key
    /\ pkt.hmac # last.packet.hmac /\ pkt.hmac # ZeroBytes(M)
    /\ pkt.message # last.packet.message /\ pkt.message # ClearMessage

\* C22 as claimed: construction over a route of more than N hops, and assembly with more
\* than N payloads, never returns a packet and never returns an error value: it panics
\* before any layer is written.
C22_Original ==
    /\ (Len(keys) > N /\ pc # "start") =>
          /\ derived = [kind |-> "panic"]
          /\ pc = "panic" /\ pkt = NoPacket /\ built = <<>>
          /\ OnionPacket_new(Scalar(SessionKey), zip(points, Payloads(Len(keys))), ad0)
                = [kind |-> "panic"]
    /\ (npay > N /\ derived.kind = "ok" /\ pc # "derived") =>
          (pc = "panic" /\ pkt = NoPacket /\ built = <<>>)

\* C22 as amended: over a route of more than N hops no packet is returned and no layer
\* written; the fold runs over the whole route before the copy into the N-element array,
\* so the error value is returned when a group operation fails at a hop, and the call
\* panics otherwise; one-shot construction likewise (error from the fold, panic in the
\* filler loop otherwise).  Assembly with more than N payloads over a derived value
\* panics in the first iteration of the filler loop, before any layer is written.
C22_OverLongRoute ==
    /\ (Len(keys) > N /\ pc # "start") =>
          /\ derived = [kind |-> IF GroupFailure THEN "error" ELSE "panic"]
          /\ pc = derived.kind /\ pkt = NoPacket /\ built = <<>>
          /\ OnionPacket_new(Scalar(SessionKey), zip(points, Payloads(Len(keys))), ad0)
                = [kind |-> IF GroupFailure THEN "error" ELSE "panic"]
    /\ (npay > N /\ derived.kind = "ok" /\ pc # "derived") =>
          (pc = "panic" /\ pkt = NoPacket /\ built = <<>>)

C22_Witness ==
    /\ pc = "panic" /\ derived = [kind |-> "panic"]
    /\ Len(keys) = N + 1 /\ ~GroupFailure /\ pkt = NoPacket

C22_WitnessPayloads ==
    /\ pc = "panic" /\ derived.kind = "ok" /\ npay = N + 1 /\ Len(keys) = N
    /\ pkt = NoPacket /\ built = <<>>

C22_WitnessGroupError ==
    /\ pc = "error" /\ derived = [kind |-> "error"]
    /\ Len(keys) = N + 1 /\ points[N + 1] = Infinity /\ hzero = 0

\* C23: the layers written by Packet::new are as many as the payloads it is handed,
\* whatever the number of points the secrets were derived for: with secrets derived for
\* k points and k' payloads, 1 <= k' <= k <= N, the packet is the one built over the
\* first k' points of the route (secrets k'+1..k are not used), it gives back the k'
\* payloads at hops 1..k' in route order, and hop k' returns Exit.
C23_LayerCount ==
    /\ (Fresh /\ 1 <= npay /\ npay <= Len(keys)) =>
          /\ Len(built) = npay
          /\ new(data(Scalar(SessionKey), SubSeq(points, 1, npay)), ad0,
                 PayloadsOf(variant, npay), ClearMessage)
                = [kind |-> "ok", packet |-> pkt]
    /\ (HonestCall /\ last.tamper = NoTamper /\ 1 <= npay /\ npay <= Len(keys)) =>
          /\ last.hop <= npay
          /\ last.result.kind = IF last.hop = npay THEN "Exit" ELSE "Forward"
          /\ outputs = PayloadsOf(variant, last.hop)

C23_Witness ==
    /\ pc = "exit" /\ honest /\ tamper = NoTamper
    /\ npay >= 2 /\ npay < Len(keys) /\ derived.shared_secrets[Len(keys)] # ZeroSecret
    /\ last.hop = npay /\ last.result.kind = "Exit"
    /\ outputs = Payloads(npay)

\* C24: construction over a route of zero hops succeeds: Packet::data returns N default
\* secrets and the point x * base, and Packet::new with no payload returns a packet with
\* that point, an all-zero routing_info, an all-zero hmac and the message as handed in,
\* no layer written: no filler, keystream or MAC byte is in it.  One-shot construction
\* over the empty route returns the same point, routing_info and hmac.
C24_EmptyRoute ==
    /\ (Len(keys) = 0 /\ pc # "start") =>
          derived = [kind           |-> "ok",
                     shared_secrets |-> [i \in 1..N |-> ZeroSecret],
                     public_key     |-> paired(Scalar(SessionKey))]
    /\ (Fresh /\ npay = 0) =>
          /\ pkt = [public_key   |-> paired(Scalar(SessionKey)),
                    routing_info |-> [i \in 1..N |->
                                        [data |-> [j \in 1..L |-> {}],
                                         hmac |-> [j \in 1..M |-> {}]]],
                    hmac         |-> [j \in 1..M |-> {}],
                    message      |-> ClearMessage]
          /\ built = <<>>
    /\ (Fresh /\ npay = 0 /\ Len(keys) = 0) =>
          OnionPacket_new(Scalar(SessionKey), <<>>, ad0)
            = [kind   |-> "ok",
               packet |-> [ephemeral_public_key |-> pkt.public_key,
                           routing_info         |-> pkt.routing_info,
                           hmac                 |-> pkt.hmac]]

C24_Witness ==
    /\ Fresh /\ npay = 0 /\ Len(keys) = 0 /\ ad0 # <<>>
    /\ pkt # NoPacket /\ pkt.routing_info = Path_new /\ pkt.hmac = ZeroBytes(M)
    /\ pkt.message = ClearMessage

====
